---- MODULE Spec2Model ----
(***************************************************************************)
(* cppcodec: detail/stream_codec.hpp                                       *)
(*                                                                         *)
(* stream_codec<Codec, CodecVariant> drives a block codec over a buffer:   *)
(* encode() splits the bytes into full blocks and a tail, decode() sorts   *)
(* the characters into blocks, validates padding and decodes the tail, and *)
(* encoded_size()/decoded_max_size() are the closed size formulas.         *)
(*                                                                         *)
(* Codec and CodecVariant are template parameters defined outside          *)
(* stream_codec.hpp.  The size formulas are checked for the block sizes of *)
(* base16, base64 and base32; encode and decode are instantiated with the  *)
(* base64 block codec (3 bytes <-> 4 symbols of 6 bits) and a variant      *)
(* whose two padding flags are free and which knows one ignorable          *)
(* character.                                                              *)
(***************************************************************************)
EXTENDS Integers, Naturals, Sequences, FiniteSets, TLC

VARIABLES
    binary_block_size,  \* Codec::binary_block_size()
    encoded_block_size, \* Codec::encoded_block_size()
    generates_padding,  \* CodecVariant::generates_padding()
    requires_padding,   \* CodecVariant::requires_padding()
    layout,             \* what the build placed right behind idx[] on the stack
    ptrWrap,            \* does the build compare the wrapped src_end address
    mode,               \* which call the caller is in
    binary,             \* the caller's byte buffer (encode input)
    srcNull,            \* encode was called with (nullptr, 0)
    encoded,            \* the character buffer (encode output / decode input)
    e,                  \* the locals of stream_codec::encode
    d,                  \* the locals of stream_codec::decode
    N,                  \* binary_size handed to the size formulas
    esize,              \* encoded_size(N)
    dmax                \* decoded_max_size(encoded_size(N))

vars == <<binary_block_size, encoded_block_size, generates_padding, requires_padding, layout, ptrWrap, mode, binary,
          srcNull, encoded, e, d, N, esize, dmax>>

----------------------------------------------------------------------------
(* Bounds of the exploration *)

MaxBinLen == 4
MaxEncLen == 5
MaxN == 40

\* byte values the caller draws from (all 6-bit groups 0, 19, 16, 13, 63, 48, 15 occur)
ByteSet == {0, 77, 255}

\* 'A' (0), 'D' (3), '=' (padding), NUL (end marker), LF (ignorable), '!' (invalid)
CharSet == {65, 68, 61, 0, 10, 33}

\* stack layouts of the byte idx[encoded_block_size()]: dead storage, the
\* variable last_value_idx, the variable last_idx, the stack protector's guard
Layouts == {"none", "lvi", "li", "guard"}

----------------------------------------------------------------------------
(* Codec: <<binary_block_size(), encoded_block_size()>> of base16, base64, base32 *)

Base64 == <<3, 4>>

Codecs == {<<1, 2>>, Base64, <<5, 8>>}

(* CodecVariant: alphabet and classification *)

IgnoreIndex == 253
PaddingIndex == 254
EofIndex == 255
\* index_of throws symbol_error: no index is returned
InvalidIndex == 0 - 1

padding_symbol == 61

symbol(index) ==
    IF index < 26 THEN 65 + index
    ELSE IF index < 52 THEN 97 + (index - 26)
    ELSE IF index < 62 THEN 48 + (index - 52)
    ELSE IF index = 62 THEN 43
    ELSE 47

index_of(c) ==
    IF c >= 65 /\ c <= 90 THEN c - 65
    ELSE IF c >= 97 /\ c <= 122 THEN c - 97 + 26
    ELSE IF c >= 48 /\ c <= 57 THEN c - 48 + 52
    ELSE IF c = 43 THEN 62
    ELSE IF c = 47 THEN 63
    ELSE IF c = 10 THEN IgnoreIndex
    ELSE IF c = padding_symbol THEN PaddingIndex
    ELSE IF c = 0 THEN EofIndex
    ELSE InvalidIndex

should_ignore(index) == index = IgnoreIndex

is_special_character(index) == index > 64

is_padding_symbol(index) == index = PaddingIndex

is_eof(index) == index = EofIndex

(* Codec: the block operations of base64, each returning what it puts into
   the result *)

encode_block(src) ==
    << symbol(src[1] \div 4),
       symbol((src[1] % 4) * 16 + src[2] \div 16),
       symbol((src[2] % 16) * 4 + src[3] \div 64),
       symbol(src[3] % 64) >>

encode_tail(src, remaining_src_len) ==
    IF remaining_src_len = 1
    THEN << symbol(src[1] \div 4), symbol((src[1] % 4) * 16) >>
    ELSE << symbol(src[1] \div 4),
            symbol((src[1] % 4) * 16 + src[2] \div 16),
            symbol((src[2] % 16) * 4) >>

pad(remaining_src_len) ==
    IF ~generates_padding THEN << >>
    ELSE IF remaining_src_len = 1 THEN << padding_symbol, padding_symbol >>
    ELSE << padding_symbol >>

decode_block(idx) ==
    << (idx[0] * 4 + idx[1] \div 16) % 256,
       ((idx[1] % 16) * 16 + idx[2] \div 4) % 256,
       ((idx[2] % 4) * 64 + idx[3]) % 256 >>

decode_tail(idx, idx_len) ==
    IF idx_len < 2 THEN << >>
    ELSE IF idx_len = 2 THEN << (idx[0] * 4 + idx[1] \div 16) % 256 >>
    ELSE << (idx[0] * 4 + idx[1] \div 16) % 256,
            ((idx[1] % 16) * 16 + idx[2] \div 4) % 256 >>

----------------------------------------------------------------------------
(* stream_codec::encoded_size, stream_codec::decoded_max_size *)

\* encoded_size that rounds the unpadded size down
encoded_size_nopad_floor(binary_size) ==
    IF generates_padding
    THEN ((binary_size + (binary_block_size - 1)
            - ((binary_size + (binary_block_size - 1)) % binary_block_size))
            * encoded_block_size) \div binary_block_size
    ELSE (binary_size * encoded_block_size) \div binary_block_size

encoded_size(binary_size) ==
    IF generates_padding
    THEN ((binary_size + (binary_block_size - 1)
            - ((binary_size + (binary_block_size - 1)) % binary_block_size))
            * encoded_block_size) \div binary_block_size
    ELSE ((binary_size * encoded_block_size) \div binary_block_size)
            + (IF ((binary_size * encoded_block_size) % binary_block_size) # 0
               THEN 1 ELSE 0)

\* decoded_max_size that divides by the encoded block size before multiplying
decoded_max_size_blocks_first(encoded_size_) ==
    IF requires_padding
    THEN (encoded_size_ \div encoded_block_size) * binary_block_size
    ELSE ((encoded_size_ \div encoded_block_size) * binary_block_size)
            + (IF ((encoded_size_ * binary_block_size) % encoded_block_size) # 0
               THEN 1 ELSE 0)

decoded_max_size(encoded_size_) ==
    IF requires_padding
    THEN (encoded_size_ * binary_block_size) \div encoded_block_size
    ELSE ((encoded_size_ * binary_block_size) \div encoded_block_size)
            + (IF ((encoded_size_ * binary_block_size) % encoded_block_size) # 0
               THEN 1 ELSE 0)

----------------------------------------------------------------------------
(* stream_codec::encode *)

\* src is kept as an offset into binary; src_end as an offset too.  With
\* src == nullptr and src_size < binary_block_size the address
\* src + src_size - binary_block_size lies below address 0: undefined, and a
\* build either compares the wrapped address (every src is <= it) or folds the
\* comparison into one on the sizes.
EncodeInit ==
    [pc |-> "loop", src |-> 0, src_end |-> Len(binary) - binary_block_size,
     wrapped |-> (srcNull /\ ptrWrap /\ Len(binary) < binary_block_size),
     out |-> << >>, status |-> "running"]

\* for (; src <= src_end; src += binary_block_size) encode_block(...)
EncodeLoopStep(st) ==
    IF st.wrapped \/ st.src <= st.src_end
    THEN IF st.src + binary_block_size > Len(binary)
         \* encode_block reads src[0..2] outside the buffer, at address 0
         THEN [st EXCEPT !.pc = "done", !.status = "crash"]
         ELSE [st EXCEPT
                 !.out = st.out \o encode_block(SubSeq(binary, st.src + 1,
                                                st.src + binary_block_size)),
                 !.src = st.src + binary_block_size]
    ELSE [st EXCEPT !.pc = "tail", !.src_end = st.src_end + binary_block_size]

\* the tail step without the call of pad
EncodeTailStep_nopad(st) ==
    IF st.src_end > st.src
    THEN LET remaining_src_len == st.src_end - st.src IN
         IF remaining_src_len = 0 \/ remaining_src_len >= binary_block_size
         THEN [st EXCEPT !.pc = "done", !.status = "abort"]
         ELSE [st EXCEPT
                 !.out = st.out
                         \o encode_tail(SubSeq(binary, st.src + 1, Len(binary)),
                                        remaining_src_len),
                 !.pc = "done", !.status = "ok"]
    ELSE [st EXCEPT !.pc = "done", !.status = "ok"]

\* src_end += binary_block_size; if (src_end > src) { encode_tail; pad }
EncodeTailStep(st) ==
    IF st.src_end > st.src
    THEN LET remaining_src_len == st.src_end - st.src IN
         IF remaining_src_len = 0 \/ remaining_src_len >= binary_block_size
         THEN [st EXCEPT !.pc = "done", !.status = "abort"]
         ELSE [st EXCEPT
                 !.out = st.out
                         \o encode_tail(SubSeq(binary, st.src + 1, Len(binary)),
                                        remaining_src_len)
                         \o pad(remaining_src_len),
                 !.pc = "done", !.status = "ok"]
    ELSE [st EXCEPT !.pc = "done", !.status = "ok"]

----------------------------------------------------------------------------
(* stream_codec::decode *)

\* uint8_t idx[encoded_block_size()] = {}; uint8_t last_value_idx = 0;
\* past is the byte behind the array, idx[encoded_block_size()], when the
\* layout puts no variable there; smashed records that the guard was hit.
DecodeInit ==
    [pc |-> "main", src |-> 0,
     idx |-> [i \in 0..(encoded_block_size - 1) |-> 0],
     last_value_idx |-> 0, last_idx |-> 0, past |-> 0, smashed |-> FALSE,
     out |-> << >>, tail |-> FALSE, status |-> "running"]

Throw(st, error) == [st EXCEPT !.pc = "done", !.status = error]

\* idx[p] = v.  p = encoded_block_size is one past the array: the store lands
\* on whatever the build placed there.
WriteIdx(st, p, v) ==
    IF p < encoded_block_size THEN [st EXCEPT !.idx[p] = v]
    ELSE IF p > encoded_block_size THEN st
    ELSE IF layout = "lvi" THEN [st EXCEPT !.last_value_idx = v]
    ELSE IF layout = "li" THEN [st EXCEPT !.last_idx = v]
    ELSE IF layout = "guard" THEN [st EXCEPT !.past = v, !.smashed = TRUE]
    ELSE [st EXCEPT !.past = v]

\* the value of idx[p], p <= encoded_block_size
ReadIdx(st, p) ==
    IF p < encoded_block_size THEN st.idx[p]
    ELSE IF layout = "lvi" THEN st.last_value_idx
    ELSE IF layout = "li" THEN st.last_idx
    ELSE st.past

\* while (src < src_end) { ... } of the main pass, one character per step
DecodeMainStep(enc, st) ==
    IF st.src < Len(enc)
    THEN LET v == index_of(enc[st.src + 1])
             s1 == [st EXCEPT !.src = st.src + 1]
         IN  IF v = InvalidIndex THEN Throw(s1, "symbol_error")
             ELSE LET s2 == WriteIdx(s1, s1.last_value_idx, v) IN
                  IF should_ignore(v) THEN s2
                  ELSE IF is_special_character(v) THEN [s2 EXCEPT !.pc = "check"]
                  ELSE IF s2.last_value_idx + 1 = encoded_block_size
                       THEN [s2 EXCEPT !.out = s2.out \o decode_block(s2.idx),
                                       !.last_value_idx = 0]
                       ELSE [s2 EXCEPT !.last_value_idx = s2.last_value_idx + 1]
    ELSE [st EXCEPT !.pc = "check"]

\* uint8_t last_idx = last_value_idx; if (is_padding_symbol(idx[last_value_idx])) ++last_idx;
DecodeCheckStep(st) ==
    IF is_padding_symbol(ReadIdx(st, st.last_value_idx))
    THEN [st EXCEPT !.last_idx = st.last_value_idx + 1, !.pc = "scan"]
    ELSE [st EXCEPT !.last_idx = st.last_value_idx, !.pc = "final"]

\* while (src < src_end) { ... } of the padding scan, one character per step.
\* When the store has overwritten last_idx with an index beyond the array,
\* idx[last_idx] reads a stray stack byte: if that byte is no padding index
\* line 111 throws, and if it is, ++last_idx exceeds the block size and line
\* 116 throws, so every value of the stray byte ends in padding_error.
DecodeScanStep(enc, st) ==
    IF st.src < Len(enc)
    THEN LET v == index_of(enc[st.src + 1])
             s1 == [st EXCEPT !.src = st.src + 1]
         IN  IF v = InvalidIndex THEN Throw(s1, "symbol_error")
             ELSE LET s2 == WriteIdx(s1, s1.last_idx, v) IN
                  IF is_eof(v) THEN [s2 EXCEPT !.pc = "final"]
                  ELSE IF s2.last_idx > encoded_block_size
                       THEN Throw(s2, "padding_error")
                  ELSE IF ~is_padding_symbol(ReadIdx(s2, s2.last_idx))
                       THEN Throw(s2, "padding_error")
                  ELSE IF s2.last_idx + 1 > encoded_block_size
                       THEN Throw([s2 EXCEPT !.last_idx = s2.last_idx + 1],
                                  "padding_error")
                       ELSE [s2 EXCEPT !.last_idx = s2.last_idx + 1]
    ELSE [st EXCEPT !.pc = "final"]

\* the function returns: a smashed stack guard ends the process there
Return(st) ==
    [st EXCEPT !.pc = "done",
               !.status = IF st.smashed THEN "crash" ELSE "ok"]

\* the final block without the requires_padding check
DecodeFinalStep_nocheck(st) ==
    IF st.last_value_idx # 0
    THEN IF st.last_value_idx >= encoded_block_size
         THEN Throw(st, "abort")
         ELSE Return([st EXCEPT
                        !.out = st.out \o decode_tail(st.idx, st.last_value_idx),
                        !.tail = TRUE])
    ELSE Return(st)

\* if (last_value_idx) { padding check; abort check; decode_tail }
DecodeFinalStep(st) ==
    IF st.last_value_idx # 0
    THEN IF requires_padding /\ st.last_idx # encoded_block_size
         THEN Throw(st, "padding_error")
         ELSE IF st.last_value_idx >= encoded_block_size
         THEN Throw(st, "abort")
         ELSE Return([st EXCEPT
                        !.out = st.out \o decode_tail(st.idx, st.last_value_idx),
                        !.tail = TRUE])
    ELSE Return(st)

DecodeStep(enc, st) ==
    IF st.pc = "main" THEN DecodeMainStep(enc, st)
    ELSE IF st.pc = "check" THEN DecodeCheckStep(st)
    ELSE IF st.pc = "scan" THEN DecodeScanStep(enc, st)
    ELSE IF st.pc = "final" THEN DecodeFinalStep(st)
    ELSE st

RECURSIVE DecodeFrom(_, _)
DecodeFrom(enc, st) ==
    IF st.pc = "done" THEN st ELSE DecodeFrom(enc, DecodeStep(enc, st))

\* stream_codec::decode(result, state, enc, Len(enc)) run to its end
Decode(enc) == DecodeFrom(enc, DecodeInit)

----------------------------------------------------------------------------
(* The callers *)

NoCall == [pc |-> "idle"]

Builds(codecs) ==
    /\ \E c \in codecs : binary_block_size = c[1] /\ encoded_block_size = c[2]
    /\ generates_padding \in BOOLEAN
    /\ requires_padding \in BOOLEAN
    /\ layout \in Layouts
    /\ ptrWrap \in BOOLEAN

\* A caller that encodes a buffer and decodes what encode produced
InitRoundTrip ==
    /\ Builds({Base64})
    /\ mode = "binary_input"
    /\ binary = << >>
    /\ srcNull \in BOOLEAN
    /\ encoded = << >>
    /\ e = NoCall
    /\ d = NoCall
    /\ N = 0 /\ esize = 0 /\ dmax = 0

\* A caller that decodes an arbitrary character buffer
InitDecode ==
    /\ Builds({Base64})
    /\ generates_padding = requires_padding
    /\ ptrWrap = FALSE
    /\ mode = "encoded_input"
    /\ binary = << >>
    /\ srcNull = FALSE
    /\ encoded = << >>
    /\ e = NoCall
    /\ d = NoCall
    /\ N = 0 /\ esize = 0 /\ dmax = 0

\* A caller that sizes its buffers
InitSize ==
    /\ Builds(Codecs)
    /\ layout = "none"
    /\ ptrWrap = FALSE
    /\ mode = "size"
    /\ binary = << >>
    /\ srcNull = FALSE
    /\ encoded = << >>
    /\ e = NoCall
    /\ d = NoCall
    /\ N = 0
    /\ esize = encoded_size(0)
    /\ dmax = decoded_max_size(encoded_size(0))

build == <<binary_block_size, encoded_block_size, generates_padding, requires_padding, layout, ptrWrap>>

AppendByte ==
    /\ mode = "binary_input"
    /\ ~srcNull
    /\ Len(binary) < MaxBinLen
    /\ \E b \in ByteSet : binary' = Append(binary, b)
    /\ UNCHANGED <<build, mode, srcNull, encoded, e, d, N, esize, dmax>>

CallEncode ==
    /\ mode = "binary_input"
    /\ mode' = "encode"
    /\ e' = EncodeInit
    /\ UNCHANGED <<build, binary, srcNull, encoded, d, N, esize, dmax>>

EncodeLoop ==
    /\ mode = "encode"
    /\ e.pc = "loop"
    /\ e' = EncodeLoopStep(e)
    /\ UNCHANGED <<build, mode, binary, srcNull, encoded, d, N, esize, dmax>>

EncodeTail ==
    /\ mode = "encode"
    /\ e.pc = "tail"
    /\ e' = EncodeTailStep(e)
    /\ UNCHANGED <<build, mode, binary, srcNull, encoded, d, N, esize, dmax>>

\* the caller hands encode's result to decode
CallDecodeOfEncoded ==
    /\ mode = "encode"
    /\ e.pc = "done"
    /\ e.status = "ok"
    /\ encoded' = e.out
    /\ mode' = "decode"
    /\ d' = DecodeInit
    /\ UNCHANGED <<build, binary, srcNull, e, N, esize, dmax>>

AppendChar ==
    /\ mode = "encoded_input"
    /\ Len(encoded) < MaxEncLen
    /\ \E c \in CharSet : encoded' = Append(encoded, c)
    /\ UNCHANGED <<build, mode, binary, srcNull, e, d, N, esize, dmax>>

CallDecode ==
    /\ mode = "encoded_input"
    /\ mode' = "decode"
    /\ d' = DecodeInit
    /\ UNCHANGED <<build, binary, srcNull, encoded, e, N, esize, dmax>>

DecodeMain ==
    /\ mode = "decode"
    /\ d.pc = "main"
    /\ d' = DecodeMainStep(encoded, d)
    /\ UNCHANGED <<build, mode, binary, srcNull, encoded, e, N, esize, dmax>>

DecodeCheck ==
    /\ mode = "decode"
    /\ d.pc = "check"
    /\ d' = DecodeCheckStep(d)
    /\ UNCHANGED <<build, mode, binary, srcNull, encoded, e, N, esize, dmax>>

DecodeScan ==
    /\ mode = "decode"
    /\ d.pc = "scan"
    /\ d' = DecodeScanStep(encoded, d)
    /\ UNCHANGED <<build, mode, binary, srcNull, encoded, e, N, esize, dmax>>

DecodeFinal ==
    /\ mode = "decode"
    /\ d.pc = "final"
    /\ d' = DecodeFinalStep(d)
    /\ UNCHANGED <<build, mode, binary, srcNull, encoded, e, N, esize, dmax>>

SizeQuery ==
    /\ mode = "size"
    /\ N < MaxN
    /\ N' = N + 1
    /\ esize' = encoded_size(N + 1)
    /\ dmax' = decoded_max_size(encoded_size(N + 1))
    /\ UNCHANGED <<build, mode, binary, srcNull, encoded, e, d>>

NextDecodeSteps == DecodeMain \/ DecodeCheck \/ DecodeScan \/ DecodeFinal

NextRoundTrip ==
    \/ AppendByte \/ CallEncode \/ EncodeLoop \/ EncodeTail
    \/ CallDecodeOfEncoded \/ NextDecodeSteps

NextDecode == AppendChar \/ CallDecode \/ NextDecodeSteps

NextSize == SizeQuery

Spec == InitRoundTrip /\ [][NextRoundTrip]_vars

SpecDecode == InitDecode /\ [][NextDecode]_vars

SpecSize == InitSize /\ [][NextSize]_vars

----------------------------------------------------------------------------
(* Vocabulary of the properties *)

EncodeDone == mode \in {"encode", "decode"} /\ e.pc = "done"

DecodeDone == mode = "decode" /\ d.pc = "done"

IsData(c) == index_of(c) >= 0 /\ index_of(c) < 64

\* the characters decode has read so far
Consumed == IF mode = "decode" THEN SubSeq(encoded, 1, d.src) ELSE << >>

CountOf(s, P(_)) == Cardinality({i \in 1..Len(s) : P(s[i])})

IsCounted(c) == ~should_ignore(index_of(c)) /\ ~is_eof(index_of(c))

IsPadChar(c) == is_padding_symbol(index_of(c))

IsEofChar(c) == is_eof(index_of(c))

InsertAt(s, p, c) == SubSeq(s, 1, p) \o << c >> \o SubSeq(s, p + 1, Len(s))

----------------------------------------------------------------------------
(* Properties *)

\* C1: encode of any byte buffer followed by decode of the produced symbols
\* completes without error and yields the buffer, for every variant.
C1_RoundTrip ==
    /\ EncodeDone => e.status = "ok"
    /\ DecodeDone => d.status = "ok" /\ d.out = binary

\* C2: when encode has ended, the number of symbols it emitted (full blocks,
\* tail and padding) is encoded_size(N), for padding and non-padding variants.
C2_EncodedSizeExact ==
    EncodeDone => Len(e.out) = encoded_size(Len(binary))

C2_Witness ==
    /\ EncodeDone
    /\ e.status = "ok"
    /\ generates_padding
    /\ Len(binary) > binary_block_size
    /\ Len(binary) % binary_block_size = 1
    /\ Len(e.out) = 2 * encoded_block_size

\* C3: decoded_max_size(encoded_size(N)) >= N for every N and every
\* combination of generates_padding and requires_padding.
C3_NeverUnderAllocates ==
    mode = "size" => dmax >= N

C3_Witness ==
    /\ mode = "size"
    /\ <<binary_block_size, encoded_block_size>> = <<5, 8>>
    /\ ~generates_padding
    /\ requires_padding
    /\ N % binary_block_size = 2
    /\ N > binary_block_size
    /\ dmax = N

\* C4: when decode accepts a buffer of length M, the bytes it wrote to the
\* result are at most decoded_max_size(M), whether padding is required or not.
C4_DecodedWithinMaxSize ==
    (DecodeDone /\ d.status = "ok") =>
        Len(d.out) <= decoded_max_size(Len(encoded))

C4_Witness ==
    /\ DecodeDone
    /\ d.status = "ok"
    /\ d.tail
    /\ ~requires_padding
    /\ Len(d.out) = binary_block_size - 1
    /\ Len(d.out) < decoded_max_size(Len(encoded))

\* C5: inserting an ignorable character at any position of an accepted buffer
\* (also between or after padding symbols) gives a buffer that is accepted
\* with the same decoded bytes.
C5_IgnorableAnywhere ==
    (DecodeDone /\ d.status = "ok") =>
        \A p \in 0..Len(encoded) :
            LET r == Decode(InsertAt(encoded, p, 10))
            IN  r.status = "ok" /\ r.out = d.out

\* C6: decode of X, an end marker and a trailing T ends as decode of X alone
\* (same bytes or same error) and classifies no character after the end marker.
C6_EndMarkerStops ==
    DecodeDone =>
        \A k \in 1..Len(encoded) :
            (IsEofChar(encoded[k]) /\ \A i \in 1..(k - 1) : ~IsEofChar(encoded[i])) =>
                LET r == Decode(SubSeq(encoded, 1, k - 1))
                IN  /\ d.status = r.status
                    /\ d.status = "ok" => d.out = r.out
                    /\ d.src <= k

C8_NonPaddingAfterPadding ==
    DecodeDone =>
        ((\E i \in 1..d.src : \E j \in (i + 1)..d.src :
              /\ IsPadChar(encoded[i])
              /\ ~IsPadChar(encoded[j])
              /\ ~IsEofChar(encoded[j]))
         => d.status = "padding_error")

\* C9: with required padding, an accepted input has consumed a multiple of the
\* encoded block size of non-ignored characters, and padding that starts at
\* cursor 0 in an input of valid characters is rejected with a padding error.
C9_PaddedLengthIsWholeBlocks ==
    (DecodeDone /\ requires_padding /\ d.status # "symbol_error") =>
        /\ d.status = "ok" =>
               CountOf(Consumed, IsCounted) % encoded_block_size = 0
        /\ (\E i \in 1..d.src :
               /\ IsPadChar(encoded[i])
               /\ \A j \in 1..(i - 1) : ~IsPadChar(encoded[j])
               /\ CountOf(SubSeq(encoded, 1, i - 1), IsData) % encoded_block_size = 0)
           => d.status = "padding_error"

\* C10: every read and write of idx[] uses a position below the block size,
\* in the main pass (last_value_idx) and in the padding scan (last_idx).
C10_IdxWithinCapacity ==
    mode = "decode" =>
        /\ d.pc \in {"main", "check"} => d.last_value_idx < encoded_block_size
        /\ (d.pc = "scan" /\ d.src < Len(encoded)) => d.last_idx < encoded_block_size

====
